---- MODULE Spec2Model ----
(***************************************************************************)
(* Model of the laundry-machine scheduling core of src/src/Machine.ts:     *)
(* TimeSlot (validated half-open interval), Schedule (ordered list of      *)
(* TimeSlot objects with admission control) and Machine (forwarding        *)
(* wrapper).  Time is in milliseconds, as Date.getTime() returns it.       *)
(* A TimeSlot object is a record [id, start, end]; id is the object's      *)
(* identity (JavaScript reference), so record equality is ===.             *)
(***************************************************************************)
EXTENDS Integers, Sequences, FiniteSets, TLC

\* ---------------------------------------------------------------- bounds
\* Instants 0 .. MaxNear (ms) are in the model,
MaxNear == 1
\* and so are the instants MaxDuration + 1 .. MaxDuration + MaxFar.
MaxFar == 3
\* Largest number of slots a schedule holds in the model.
MaxSlots == 3

\* Largest number of slots two Machines hold together where two are modelled.
MaxSlotsTwo == 2

\* ------------------------------------------------------ program constants
\* 1000 * 60 * 60 * 24 : the longest TimeSlot, in ms.
MaxDuration == 1000 * 60 * 60 * 24

\* getTime() of an invalid Date (NaN); never compared numerically before
\* the isNaN tests of the constructor have excluded it.
NaN == 0 - 1

isNaN(t) == t = NaN

\* The instants of the model: the first ms and a few ms more than 24h later,
\* so that durations and gaps of 0, of exactly 24h and of 24h + 1ms occur.
Instants == (0 .. MaxNear) \cup { MaxDuration + t : t \in 1 .. MaxFar }

\* null
NoSlot == [id |-> 0, start |-> 0, end |-> 0]

\* ----------------------------------------------------------------- state
VARIABLES
    now,        \* the wall clock, new Date().getTime()
    timeSlots,  \* Machine.schedule.timeSlots
    op,         \* the last operation called
    arg,        \* its argument: a TimeSlot; for "new", the two instants
    ret,        \* what it returned, or the message of the Error it threw
    before,     \* timeSlots when it was called
    prev,       \* when the last call is a removeTimeSlot that directly
                \* followed an addTimeSlot that returned true: the argument
                \* of that addTimeSlot and the timeSlots it was called on;
                \* NoPrev otherwise
    timeSlots2, \* schedule.timeSlots of a second Machine
    on          \* the Machine the last operation was called on: 1 for the
                \* Machine of timeSlots, 2 for the second one, 0 for none

vars == <<now, timeSlots, op, arg, ret, before, prev, timeSlots2, on>>

\* ------------------------------------------------------------- TimeSlot
ErrStart == "The start time is not valid."
ErrEnd == "The end time is not valid."
ErrOrder == "The start time must be before the end time."
ErrDuration == "The time slot cannot be longer than 24 hours."
Ok == "ok"

\* TimeSlot.constructor with the duration test written >= : 24h is refused.
TimeSlotCheckStrict(start, end) ==
    IF isNaN(start) THEN ErrStart
    ELSE IF isNaN(end) THEN ErrEnd
    ELSE IF start >= end THEN ErrOrder
    ELSE IF end - start >= MaxDuration THEN ErrDuration
    ELSE Ok

\* TimeSlot.constructor: the message thrown, or Ok.
TimeSlotCheck(start, end) ==
    IF isNaN(start) THEN ErrStart
    ELSE IF isNaN(end) THEN ErrEnd
    ELSE IF start >= end THEN ErrOrder
    ELSE IF end - start > MaxDuration THEN ErrDuration
    ELSE Ok

equals(a, b) == a.start = b.start /\ a.end = b.end

lessThan(a, b) == a.start < b.start

\* contains with the end inclusive.
containsClosed(slot, date) == date >= slot.start /\ date <= slot.end

contains(slot, date) == date >= slot.start /\ date < slot.end

overlaps(a, b) == a.start < b.end /\ a.end > b.start

\* --------------------------------------------------------- Array helpers
\* Array.prototype.splice(i, 0, x), i counted from 1.
SpliceIn(s, i, x) == SubSeq(s, 1, i - 1) \o <<x>> \o SubSeq(s, i, Len(s))

\* splice(i, 2): one element too many is removed.
SpliceOutTwo(s, i) == SubSeq(s, 1, i - 1) \o SubSeq(s, i + 2, Len(s))

\* Array.prototype.splice(i, 1), i counted from 1.
SpliceOut(s, i) == SubSeq(s, 1, i - 1) \o SubSeq(s, i + 1, Len(s))

\* Array.prototype.indexOf: strict equality, i.e. object identity; counted
\* from 1, 0 where the code has -1.
RECURSIVE IndexFrom(_, _, _)
IndexFrom(s, x, i) ==
    IF i > Len(s) THEN 0
    ELSE IF s[i] = x THEN i
    ELSE IndexFrom(s, x, i + 1)

indexOf(s, x) == IndexFrom(s, x, 1)

\* ------------------------------------------------------------- Schedule
\* The TimeSlot objects stored in a schedule.
Stored(s) == { s[i] : i \in 1 .. Len(s) }

\* The object a successful new TimeSlot(start, end) yields.  Objects are
\* named by their endpoints and a serial number id; a new object takes the
\* first serial number that no stored object of the same endpoints has, so
\* it is identical (===) to no stored object.
New(s, start, end) ==
    LET id == CHOOSE i \in 1 .. (Len(s) + 1) :
                  /\ [id |-> i, start |-> start, end |-> end] \notin Stored(s)
                  /\ \A j \in 1 .. (i - 1) :
                         [id |-> j, start |-> start, end |-> end] \in Stored(s)
    IN  [id |-> id, start |-> start, end |-> end]

\* The overlap loop with <= and >= : slots that only touch are refused.
RECURSIVE OverlapFromClosed(_, _, _)
OverlapFromClosed(s, timeSlot, i) ==
    IF i > Len(s) THEN FALSE
    ELSE IF timeSlot.start <= s[i].end /\ timeSlot.end >= s[i].start THEN TRUE
    ELSE OverlapFromClosed(s, timeSlot, i + 1)

\* addTimeSlot, the overlap loop: TRUE when some slot from index i on
\* overlaps timeSlot.
RECURSIVE OverlapFrom(_, _, _)
OverlapFrom(s, timeSlot, i) ==
    IF i > Len(s) THEN FALSE
    ELSE IF timeSlot.start < s[i].end /\ timeSlot.end > s[i].start THEN TRUE
    ELSE OverlapFrom(s, timeSlot, i + 1)

\* The insertion loop left out: every admitted slot is pushed.
InsertFromPush(s, timeSlot, i) == Len(s) + 1

\* addTimeSlot, the insertion loop: the index the slot is spliced in at,
\* Len + 1 for push.
RECURSIVE InsertFrom(_, _, _)
InsertFrom(s, timeSlot, i) ==
    IF i > Len(s) THEN Len(s) + 1
    ELSE IF lessThan(timeSlot, s[i]) THEN i
    ELSE InsertFrom(s, timeSlot, i + 1)

\* addTimeSlot with the elapsed test made after the insertion.
addTimeSlotLate(s, timeSlot, t) ==
    IF OverlapFrom(s, timeSlot, 1) THEN [ret |-> FALSE, slots |-> s]
    ELSE [ret |-> ~(timeSlot.end < t),
          slots |-> SpliceIn(s, InsertFrom(s, timeSlot, 1), timeSlot)]

\* Schedule.addTimeSlot: the value returned and the timeSlots it leaves.
addTimeSlot(s, timeSlot, t) ==
    IF timeSlot.end < t THEN [ret |-> FALSE, slots |-> s]
    ELSE IF OverlapFrom(s, timeSlot, 1) THEN [ret |-> FALSE, slots |-> s]
    ELSE [ret |-> TRUE, slots |-> SpliceIn(s, InsertFrom(s, timeSlot, 1), timeSlot)]

\* removeTimeSlot that removes the first element when it finds the slot.
removeTimeSlotFirst(s, timeSlot) ==
    LET index == indexOf(s, timeSlot) IN
    IF index = 0 THEN [ret |-> FALSE, slots |-> s]
    ELSE [ret |-> TRUE, slots |-> SpliceOut(s, 1)]

\* Schedule.removeTimeSlot.
removeTimeSlot(s, timeSlot) ==
    LET index == indexOf(s, timeSlot) IN
    IF index = 0 THEN [ret |-> FALSE, slots |-> s]
    ELSE [ret |-> TRUE, slots |-> SpliceOut(s, index)]

\* isFree that also refuses slots that only touch a stored slot.
RECURSIVE FreeFromClosed(_, _, _)
FreeFromClosed(s, timeSlot, i) ==
    IF i > Len(s) THEN TRUE
    ELSE IF s[i].start <= timeSlot.end /\ s[i].end >= timeSlot.start THEN FALSE
    ELSE FreeFromClosed(s, timeSlot, i + 1)

\* Schedule.isFree.
RECURSIVE FreeFrom(_, _, _)
FreeFrom(s, timeSlot, i) ==
    IF i > Len(s) THEN TRUE
    ELSE IF overlaps(s[i], timeSlot) THEN FALSE
    ELSE FreeFrom(s, timeSlot, i + 1)

isFree(s, timeSlot) == FreeFrom(s, timeSlot, 1)

\* nextBusyTimeSlot without the return in the loop: the last slot that
\* starts after now wins.
RECURSIVE BusyFromLast(_, _, _)
BusyFromLast(s, t, i) ==
    IF i > Len(s) THEN NoSlot
    ELSE LET rest == BusyFromLast(s, t, i + 1) IN
         IF rest # NoSlot THEN rest
         ELSE IF s[i].start > t THEN s[i]
         ELSE NoSlot

\* nextBusyTimeSlot with >= : a slot that starts now is returned.
RECURSIVE BusyFromAtOrAfter(_, _, _)
BusyFromAtOrAfter(s, t, i) ==
    IF i > Len(s) THEN NoSlot
    ELSE IF s[i].start >= t THEN s[i]
    ELSE BusyFromAtOrAfter(s, t, i + 1)

\* Schedule.nextBusyTimeSlot.
RECURSIVE BusyFrom(_, _, _)
BusyFrom(s, t, i) ==
    IF i > Len(s) THEN NoSlot
    ELSE IF s[i].start > t THEN s[i]
    ELSE BusyFrom(s, t, i + 1)

nextBusyTimeSlot(s, t) == BusyFrom(s, t, 1)

\* nextFreeTimeSlot that catches the constructor's Error and returns null.
RECURSIVE NextFreeFromQuiet(_, _, _)
NextFreeFromQuiet(s, t, i) ==
    IF i > Len(s) THEN [err |-> Ok, slot |-> NoSlot]
    ELSE IF s[i].start > t
         THEN LET from == IF i = 1 THEN t ELSE s[i - 1].end
              IN  IF TimeSlotCheck(from, s[i].start) = Ok
                  THEN [err |-> Ok, slot |-> New(s, from, s[i].start)]
                  ELSE [err |-> Ok, slot |-> NoSlot]
         ELSE NextFreeFromQuiet(s, t, i + 1)

\* nextFreeTimeSlot that starts the gap at the start of the slot before.
RECURSIVE NextFreeFromPrevStart(_, _, _)
NextFreeFromPrevStart(s, t, i) ==
    IF i > Len(s) THEN [err |-> Ok, slot |-> NoSlot]
    ELSE IF s[i].start > t
         THEN LET from == IF i = 1 THEN t ELSE s[i - 1].start
                  chk == TimeSlotCheck(from, s[i].start)
              IN  IF chk = Ok
                  THEN [err |-> Ok, slot |-> New(s, from, s[i].start)]
                  ELSE [err |-> chk, slot |-> NoSlot]
         ELSE NextFreeFromPrevStart(s, t, i + 1)

\* nextFreeTimeSlot without the i === 0 distinction: the gap always starts now.
RECURSIVE NextFreeFromNow(_, _, _)
NextFreeFromNow(s, t, i) ==
    IF i > Len(s) THEN [err |-> Ok, slot |-> NoSlot]
    ELSE IF s[i].start > t
         THEN LET chk == TimeSlotCheck(t, s[i].start)
              IN  IF chk = Ok
                  THEN [err |-> Ok, slot |-> New(s, t, s[i].start)]
                  ELSE [err |-> chk, slot |-> NoSlot]
         ELSE NextFreeFromNow(s, t, i + 1)

\* Schedule.nextFreeTimeSlot: [err, slot]; err is the message the TimeSlot
\* constructor threw, or Ok; slot is the interval returned, NoSlot for null.
RECURSIVE NextFreeFrom(_, _, _)
NextFreeFrom(s, t, i) ==
    IF i > Len(s) THEN [err |-> Ok, slot |-> NoSlot]
    ELSE IF s[i].start > t
         THEN LET from == IF i = 1 THEN t ELSE s[i - 1].end
                  chk == TimeSlotCheck(from, s[i].start)
              IN  IF chk = Ok
                  THEN [err |-> Ok, slot |-> New(s, from, s[i].start)]
                  ELSE [err |-> chk, slot |-> NoSlot]
         ELSE NextFreeFrom(s, t, i + 1)

nextFreeTimeSlot(s, t) == NextFreeFrom(s, t, 1)

\* isBusy that returns from inside the loop on the first slot, whichever
\* way the test goes.
IsBusyFromFirst(s, t, i) ==
    IF i > Len(s) THEN FALSE
    ELSE contains(s[i], t)

\* Schedule.isBusy.
RECURSIVE IsBusyFrom(_, _, _)
IsBusyFrom(s, t, i) ==
    IF i > Len(s) THEN FALSE
    ELSE IF contains(s[i], t) THEN TRUE
    ELSE IsBusyFrom(s, t, i + 1)

\* isBusy without the clock: busy as long as anything is booked.
isBusyBooked(s, t) == Len(s) > 0

isBusy(s, t) == IsBusyFrom(s, t, 1)

\* -------------------------------------------------------------- Machine
BUSY == "BUSY"
IDLE == "IDLE"

getStatus(s, t) == IF isBusy(s, t) THEN BUSY ELSE IDLE

\* ---------------------------------------------------------------- steps
\* The TimeSlot objects a caller can construct now.
Constructed(s) ==
    { New(s, p[1], p[2]) :
        p \in { q \in Instants \X Instants : TimeSlotCheck(q[1], q[2]) = Ok } }

\* The references a caller can pass: an object it has just constructed, or
\* one stored in the schedule (reachable through getSchedule().timeSlots).
Refs == Constructed(timeSlots) \cup Stored(timeSlots)

NoPrev == [arg |-> NoSlot, before |-> <<>>]

\* removeTimeSlot keeps the record of the call it follows.
Shift ==
    prev' = IF op = "addTimeSlot" /\ ret = TRUE
            THEN [arg |-> arg, before |-> before]
            ELSE NoPrev

Init ==
    /\ now \in Instants
    /\ timeSlots = <<>>
    /\ op = "init"
    /\ arg = NoSlot
    /\ ret = FALSE
    /\ before = <<>>
    /\ prev = NoPrev
    /\ timeSlots2 = <<>>
    /\ on = 0

\* A clock that drops the slots that have elapsed as it moves forward.
ClockAdvancePrune ==
    /\ \E t \in Instants :
           /\ t > now
           /\ now' = t
           /\ timeSlots' = SelectSeq(timeSlots, LAMBDA x : x.end > t)
    /\ op' = "clock"
    /\ arg' = NoSlot
    /\ ret' = FALSE
    /\ before' = timeSlots
    /\ prev' = NoPrev
    /\ on' = 0
    /\ UNCHANGED timeSlots2

\* The wall clock moves forward.
ClockAdvance ==
    /\ \E t \in Instants : t > now /\ now' = t
    /\ op' = "clock"
    /\ arg' = NoSlot
    /\ ret' = FALSE
    /\ before' = timeSlots
    /\ prev' = NoPrev
    /\ on' = 0
    /\ UNCHANGED <<timeSlots, timeSlots2>>

\* new TimeSlot(start, end)
NewTimeSlot ==
    \E start \in Instants \cup {NaN}, end \in Instants \cup {NaN} :
        /\ op' = "new"
        /\ arg' = [id |-> 0, start |-> start, end |-> end]
        /\ ret' = TimeSlotCheck(start, end)
        /\ before' = timeSlots
        /\ prev' = NoPrev
        /\ on' = 0
        /\ UNCHANGED <<now, timeSlots, timeSlots2>>

\* machine.addTimeSlot(timeSlot)
AddTimeSlot ==
    \E timeSlot \in Refs :
        LET r == addTimeSlot(timeSlots, timeSlot, now) IN
        /\ Len(r.slots) <= MaxSlots
        /\ timeSlots' = r.slots
        /\ op' = "addTimeSlot"
        /\ arg' = timeSlot
        /\ ret' = r.ret
        /\ before' = timeSlots
        /\ prev' = NoPrev
        /\ on' = 1
        /\ UNCHANGED <<now, timeSlots2>>

\* machine.removeTimeSlot(timeSlot)
RemoveTimeSlot ==
    \E timeSlot \in Refs :
        LET r == removeTimeSlot(timeSlots, timeSlot) IN
        /\ timeSlots' = r.slots
        /\ op' = "removeTimeSlot"
        /\ arg' = timeSlot
        /\ ret' = r.ret
        /\ before' = timeSlots
        /\ Shift
        /\ on' = 1
        /\ UNCHANGED <<now, timeSlots2>>

\* schedule.isFree(timeSlot)
IsFree ==
    \E timeSlot \in Refs :
        /\ op' = "isFree"
        /\ arg' = timeSlot
        /\ ret' = isFree(timeSlots, timeSlot)
        /\ before' = timeSlots
        /\ prev' = NoPrev
        /\ on' = 1
        /\ UNCHANGED <<now, timeSlots, timeSlots2>>

\* schedule.nextBusyTimeSlot()
NextBusyTimeSlot ==
    /\ op' = "nextBusyTimeSlot"
    /\ arg' = NoSlot
    /\ ret' = nextBusyTimeSlot(timeSlots, now)
    /\ before' = timeSlots
    /\ prev' = NoPrev
    /\ on' = 1
    /\ UNCHANGED <<now, timeSlots, timeSlots2>>

\* schedule.nextFreeTimeSlot()
NextFreeTimeSlot ==
    /\ op' = "nextFreeTimeSlot"
    /\ arg' = NoSlot
    /\ ret' = nextFreeTimeSlot(timeSlots, now)
    /\ before' = timeSlots
    /\ prev' = NoPrev
    /\ on' = 1
    /\ UNCHANGED <<now, timeSlots, timeSlots2>>

\* schedule.isBusy()
IsBusy ==
    /\ op' = "isBusy"
    /\ arg' = NoSlot
    /\ ret' = isBusy(timeSlots, now)
    /\ before' = timeSlots
    /\ prev' = NoPrev
    /\ on' = 1
    /\ UNCHANGED <<now, timeSlots, timeSlots2>>

\* machine.getStatus()
GetStatus ==
    /\ op' = "getStatus"
    /\ arg' = NoSlot
    /\ ret' = getStatus(timeSlots, now)
    /\ before' = timeSlots
    /\ prev' = NoPrev
    /\ on' = 1
    /\ UNCHANGED <<now, timeSlots, timeSlots2>>

Next ==
    \/ ClockAdvance
    \/ AddTimeSlot
    \/ RemoveTimeSlot
    \/ IsFree
    \/ NextBusyTimeSlot
    \/ NextFreeTimeSlot
    \/ IsBusy
    \/ GetStatus

\* The operations of a Machine while the clock runs; the TimeSlot objects
\* passed in are those of Refs.
Spec == Init /\ [][Next]_vars

\* The same with a wall clock that does not stop: while a later instant
\* exists the clock gets there.
SpecClockRuns == Spec /\ WF_vars(ClockAdvance)

\* The TimeSlot constructor applied to every pair of instants, valid or not.
NextTimeSlot ==
    \/ ClockAdvance
    \/ NewTimeSlot

SpecTimeSlot == Init /\ [][NextTimeSlot]_vars

\* ---------------------------------------------------------- two Machines
Machines == {1, 2}

\* Two Machines constructed with the same Schedule object.
scheduleShared(m) == 1

\* Machine.constructor, this.schedule = new Schedule(): the Schedule of
\* Machine m is an object of its own, Schedule m.
schedule(m) == m

\* Schedule.constructor, this.timeSlots = []: the array of Schedule k.
TimeSlotsOf(k) == IF k = 1 THEN timeSlots ELSE timeSlots2

\* The references a caller of two Machines can pass: an object it has just
\* constructed, or one stored in either schedule.
RefsTwo ==
    { x \in Constructed(timeSlots \o timeSlots2) : x.start > MaxDuration }
        \cup Stored(timeSlots) \cup Stored(timeSlots2)

\* An operation on Machine m has left the array of its Schedule as slots.
Store(m, slots) ==
    /\ timeSlots' = IF schedule(m) = 1 THEN slots ELSE timeSlots
    /\ timeSlots2' = IF schedule(m) = 2 THEN slots ELSE timeSlots2

\* m.addTimeSlot(timeSlot), m one of two Machines
AddTimeSlotOn(m) ==
    \E timeSlot \in RefsTwo :
        LET r == addTimeSlot(TimeSlotsOf(schedule(m)), timeSlot, now) IN
        /\ Store(m, r.slots)
        /\ Len(timeSlots') + Len(timeSlots2') <= MaxSlotsTwo
        /\ op' = "addTimeSlot"
        /\ arg' = timeSlot
        /\ ret' = r.ret
        /\ before' = TimeSlotsOf(schedule(m))
        /\ prev' = NoPrev
        /\ on' = m
        /\ UNCHANGED now

\* m.removeTimeSlot(timeSlot), m one of two Machines
RemoveTimeSlotOn(m) ==
    \E timeSlot \in RefsTwo :
        LET r == removeTimeSlot(TimeSlotsOf(schedule(m)), timeSlot) IN
        /\ Store(m, r.slots)
        /\ op' = "removeTimeSlot"
        /\ arg' = timeSlot
        /\ ret' = r.ret
        /\ before' = TimeSlotsOf(schedule(m))
        /\ prev' = NoPrev
        /\ on' = m
        /\ UNCHANGED now

NextTwoMachines ==
    \/ \E m \in Machines : AddTimeSlotOn(m)
    \/ \E m \in Machines : RemoveTimeSlotOn(m)

\* Two Machines, each with its Schedule, booked and unbooked at one instant
\* of the clock, whichever it is.
SpecTwoMachines == Init /\ [][NextTwoMachines]_vars

\* ------------------------------------------------------------ properties
\* The indexes of s whose slot starts after t.
Later(s, t) == { i \in 1 .. Len(s) : s[i].start > t }

Min(S) == CHOOSE x \in S : \A y \in S : x <= y

\* s with x put in at index k.
With(s, k, x) ==
    [i \in 1 .. (Len(s) + 1) |-> IF i < k THEN s[i] ELSE IF i = k THEN x ELSE s[i - 1]]

\* s with index k left out.
Without(s, k) ==
    [i \in 1 .. (Len(s) - 1) |-> IF i < k THEN s[i] ELSE s[i + 1]]

\* C1: in every reachable state timeSlots is strictly ascending by start
\* and consecutive slots do not overlap (a.end <= b.start).
C1_SortedNonOverlapping ==
    /\ \A i, j \in 1 .. Len(timeSlots) : i < j => timeSlots[i].start < timeSlots[j].start
    /\ \A i \in 1 .. (Len(timeSlots) - 1) : timeSlots[i].end <= timeSlots[i + 1].start

\* A slot has just been admitted between two stored slots.
C1_Witness ==
    /\ op = "addTimeSlot" /\ ret = TRUE
    /\ Len(timeSlots) = 3
    /\ timeSlots[2] = arg

C3_RejectLeavesSchedule ==
    (op = "addTimeSlot" /\ ret = FALSE) => timeSlots = before

\* An elapsed slot that overlaps nothing was refused by a non-empty schedule.
C3_Witness ==
    /\ op = "addTimeSlot" /\ ret = FALSE
    /\ arg.end < now
    /\ Len(before) >= 1
    /\ \A i \in 1 .. Len(before) : ~overlaps(before[i], arg)

\* The indexes of s whose slot has the endpoints of x.
EqualTo(s, x) == { i \in 1 .. Len(s) : equals(s[i], x) }

\* C4: removeTimeSlot matches by value: when a stored slot has the start and
\* the end of the argument, whatever object the argument is, the call
\* returns true and removes that stored slot.
C4_RemoveByValue ==
    (op = "removeTimeSlot" /\ EqualTo(before, arg) # {}) =>
        /\ ret = TRUE
        /\ timeSlots = Without(before, Min(EqualTo(before, arg)))

\* C5: a removeTimeSlot that returns true takes exactly one element out and
\* keeps the others in their order; with no stored slot value-equal to the
\* argument it returns false and leaves timeSlots as it was.
C5_RemoveFrame ==
    op = "removeTimeSlot" =>
        /\ ret = TRUE =>
               /\ Len(timeSlots) = Len(before) - 1
               /\ \E k \in 1 .. Len(before) :
                      before[k] = arg /\ timeSlots = Without(before, k)
        /\ EqualTo(before, arg) = {} => (ret = FALSE /\ timeSlots = before)

\* The middle one of three stored slots has just been removed.
C5_Witness ==
    /\ op = "removeTimeSlot" /\ ret = TRUE
    /\ Len(before) = 3
    /\ before[2] = arg
    /\ timeSlots = <<before[1], before[3]>>

\* removeTimeSlot found nothing value-equal and returned false.
C5_WitnessAbsent ==
    /\ op = "removeTimeSlot" /\ ret = FALSE
    /\ Len(before) >= 1
    /\ EqualTo(before, arg) = {}

\* C6: removeTimeSlot(s) called right after an addTimeSlot(s) that returned
\* true returns true and leaves timeSlots equal to the sequence the add was
\* called on.
C6_RoundTrip ==
    (op = "removeTimeSlot" /\ prev # NoPrev /\ arg = prev.arg) =>
        /\ ret = TRUE
        /\ timeSlots = prev.before

\* A slot admitted into the middle of a schedule was removed right after.
C6_Witness ==
    /\ op = "removeTimeSlot" /\ ret = TRUE
    /\ prev # NoPrev /\ arg = prev.arg
    /\ Len(prev.before) = 2
    /\ before[2] = arg

\* C7 (under SpecTimeSlot): new TimeSlot succeeds exactly when both instants are valid and
\* 0 < end - start <= 24h; otherwise the first failing test, in the order
\* validity, ordering, duration, fixes the error.
C7_Construction ==
    op = "new" =>
        LET valid == ~isNaN(arg.start) /\ ~isNaN(arg.end)
            d == arg.end - arg.start
        IN  /\ ret = Ok <=> (valid /\ 0 < d /\ d <= MaxDuration)
            /\ ~valid => ret \in {ErrStart, ErrEnd}
            /\ (valid /\ arg.start >= arg.end) => ret = ErrOrder
            /\ (valid /\ d > MaxDuration) => ret = ErrDuration
            /\ (valid /\ d = MaxDuration) => ret = Ok
            /\ (valid /\ d = MaxDuration + 1) => ret = ErrDuration

\* A slot of exactly 24h was constructed.
C7_Witness ==
    /\ op = "new" /\ ret = Ok
    /\ arg.end - arg.start = MaxDuration

\* A slot of 24h + 1ms was refused.
C7_WitnessTooLong ==
    /\ op = "new" /\ ret = ErrDuration
    /\ arg.end - arg.start = MaxDuration + 1

\* Some stored slot has start <= now < end.
Occupied == \E i \in 1 .. Len(timeSlots) : timeSlots[i].start <= now /\ now < timeSlots[i].end

\* C8: isBusy() is true iff some stored slot has start <= now < end, and
\* getStatus() is BUSY iff isBusy() is true, IDLE otherwise.
C8_BusyStatus ==
    /\ isBusy(timeSlots, now) <=> Occupied
    /\ getStatus(timeSlots, now) = (IF Occupied THEN BUSY ELSE IDLE)
    /\ op = "isBusy" => (ret <=> Occupied)
    /\ op = "getStatus" => ret = (IF Occupied THEN BUSY ELSE IDLE)

\* getStatus() was called at the very end of a stored slot and said IDLE.
C8_Witness ==
    /\ op = "getStatus" /\ ret = IDLE
    /\ \E i \in 1 .. Len(timeSlots) : timeSlots[i].end = now

\* isBusy() was called at the start of a stored slot and said true.
C8_WitnessBusy ==
    /\ op = "isBusy" /\ ret = TRUE
    /\ \E i \in 1 .. Len(timeSlots) : timeSlots[i].start = now

\* What C9 says nextBusyTimeSlot() returns.
EarliestLater(r) ==
    IF Later(timeSlots, now) = {}
    THEN r = NoSlot
    ELSE /\ \E i \in Later(timeSlots, now) : r = timeSlots[i]
         /\ \A i \in Later(timeSlots, now) : r.start <= timeSlots[i].start

\* C9: nextBusyTimeSlot() returns the stored slot of smallest start among
\* those with start > now, and null exactly when there is none.
C9_NextBusy ==
    /\ EarliestLater(nextBusyTimeSlot(timeSlots, now))
    /\ op = "nextBusyTimeSlot" => EarliestLater(ret)

\* nextBusyTimeSlot() skipped a slot that starts now and returned the
\* earlier of two later ones.
C9_Witness ==
    /\ op = "nextBusyTimeSlot" /\ ret # NoSlot
    /\ Len(timeSlots) = 3
    /\ timeSlots[1].start = now
    /\ ret = timeSlots[2]

\* What C10 says nextFreeTimeSlot() returns when it does not throw.
GapBeforeNext(r) ==
    r.err = Ok =>
        IF Later(timeSlots, now) = {}
        THEN r.slot = NoSlot
        ELSE LET i == Min(Later(timeSlots, now)) IN
             /\ r.slot # NoSlot
             /\ r.slot.start = (IF i = 1 THEN now ELSE timeSlots[i - 1].end)
             /\ r.slot.end = timeSlots[i].start

\* C10: when nextFreeTimeSlot() does not throw, it returns null exactly when
\* no stored slot has start > now; otherwise, i being the first index with
\* start > now, it returns [now, timeSlots[i].start) when i is the first
\* index and [timeSlots[i-1].end, timeSlots[i].start) when it is not.
C10_NextFree ==
    /\ GapBeforeNext(nextFreeTimeSlot(timeSlots, now))
    /\ op = "nextFreeTimeSlot" => GapBeforeNext(ret)

\* nextFreeTimeSlot() returned the gap between a slot in progress and the
\* next one.
C10_Witness ==
    /\ op = "nextFreeTimeSlot" /\ ret.err = Ok /\ ret.slot # NoSlot
    /\ Len(timeSlots) >= 2
    /\ contains(timeSlots[1], now)
    /\ ret.slot.start = timeSlots[1].end
    /\ ret.slot.start # now

\* nextFreeTimeSlot() returned null while the only unfinished slot is in
\* progress.
C10_WitnessNone ==
    /\ op = "nextFreeTimeSlot" /\ ret.err = Ok /\ ret.slot = NoSlot
    /\ Len(timeSlots) >= 1
    /\ contains(timeSlots[Len(timeSlots)], now)

\* Where the gap that nextFreeTimeSlot() builds starts: now before the first
\* stored slot, the end of the slot before otherwise.
GapStart(i) == IF i = 1 THEN now ELSE timeSlots[i - 1].end

\* What C11 says of the outcome r of nextFreeTimeSlot().
RaisesOnBadGap(r) ==
    LET later == Later(timeSlots, now)
        empty == later # {} /\ GapStart(Min(later)) = timeSlots[Min(later)].start
        long == later # {} /\
                timeSlots[Min(later)].start - GapStart(Min(later)) > MaxDuration
    IN  /\ r.err # Ok <=> (empty \/ long)
        /\ empty => r.err = ErrOrder
        /\ long => r.err = ErrDuration

\* C11: nextFreeTimeSlot() throws the TimeSlot constructor's Error, and
\* leaves timeSlots as it was, exactly when a slot with start > now exists
\* and the gap before the first such slot is empty (the slot before ends
\* where it starts) or longer than 24h; in every other state it returns.
C11_NextFreeRaises ==
    /\ RaisesOnBadGap(nextFreeTimeSlot(timeSlots, now))
    /\ op = "nextFreeTimeSlot" => (RaisesOnBadGap(ret) /\ timeSlots = before)

\* nextFreeTimeSlot() threw on the empty gap between two adjacent slots.
C11_Witness ==
    /\ op = "nextFreeTimeSlot" /\ ret.err = ErrOrder
    /\ Len(timeSlots) >= 2
    /\ \E i \in 2 .. Len(timeSlots) :
           /\ timeSlots[i - 1].end = timeSlots[i].start
           /\ i = Min(Later(timeSlots, now))

\* nextFreeTimeSlot() threw on a gap of more than 24h behind a stored slot.
C11_WitnessLong ==
    /\ op = "nextFreeTimeSlot" /\ ret.err = ErrDuration
    /\ Len(timeSlots) >= 2
    /\ Min(Later(timeSlots, now)) > 1

\* nextFreeTimeSlot() returned a gap of exactly 24h.
C11_WitnessDay ==
    /\ op = "nextFreeTimeSlot" /\ ret.err = Ok /\ ret.slot # NoSlot
    /\ ret.slot.end - ret.slot.start = MaxDuration

Mutation == timeSlots' # timeSlots

\* C13: timeSlots changes only in an addTimeSlot or a removeTimeSlot that
\* returns true; the queries, nextFreeTimeSlot() that throws included, and
\* the clock leave it as it is, so elapsed slots stay.
C13_OnlyAddRemoveMutate ==
    [][Mutation => (op' \in {"addTimeSlot", "removeTimeSlot"} /\ ret' = TRUE)]_vars

\* The clock has moved past a stored slot, which is still there.
C13_Witness ==
    /\ op = "clock"
    /\ Len(timeSlots) >= 1
    /\ timeSlots = before
    /\ timeSlots[1].end < now

\* A step that is an addTimeSlot or a removeTimeSlot on Machine m.
BookingOn(m) == on' = m /\ op' \in {"addTimeSlot", "removeTimeSlot"}

\* C14 (under SpecTwoMachines): an addTimeSlot or removeTimeSlot on one
\* Machine leaves the timeSlots of the other Machine as it was, and
\* addTimeSlot on a Machine returns true iff the slot has not elapsed and
\* overlaps no slot of that Machine, whatever the other Machine holds.
C14_OwnSchedule ==
    [][ /\ BookingOn(1) => timeSlots2' = timeSlots2
        /\ BookingOn(2) => timeSlots' = timeSlots
        /\ \A m \in Machines :
               (on' = m /\ op' = "addTimeSlot") =>
                   (ret' <=> /\ ~(arg'.end < now)
                             /\ \A e \in Stored(IF m = 1 THEN timeSlots ELSE timeSlots2) :
                                    ~overlaps(arg', e))
      ]_vars

\* The second Machine admitted a slot that overlaps a slot of the first,
\* which the first Machine refuses.
C14_Witness ==
    /\ on = 2 /\ op = "addTimeSlot" /\ ret = TRUE
    /\ arg \in Stored(timeSlots2)
    /\ arg \notin Stored(timeSlots)
    /\ \E e \in Stored(timeSlots) : overlaps(arg, e)
    /\ ~addTimeSlot(timeSlots, arg, now).ret

\* The stored slots that hold the instant now.
Running == { e \in Stored(timeSlots) : e.start <= now /\ now < e.end }

\* C15: from the addTimeSlot(s) that returned true until the removeTimeSlot
\* that removes s, s stays stored whatever else is called, and at every
\* clock value t with s.start <= t < s.end getStatus() returns BUSY.
C15_ReservationHonoured ==
    /\ [](Running # {} =>
             /\ getStatus(timeSlots, now) = BUSY
             /\ op = "getStatus" => ret = BUSY)
    /\ [][\A e \in Stored(timeSlots) :
              \/ e \in Stored(timeSlots')
              \/ op' = "removeTimeSlot" /\ arg' = e /\ ret' = TRUE]_vars

\* getStatus() said BUSY while the second of three stored slots is running.
C15_Witness ==
    /\ op = "getStatus" /\ ret = BUSY
    /\ Len(timeSlots) = 3
    /\ timeSlots[2] \in Running

\* What C16 says of the outcome r of nextFreeTimeSlot().
Bookable(r) ==
    (r.err = Ok /\ r.slot # NoSlot) =>
        /\ r.slot.end > now
        /\ isFree(timeSlots, r.slot)
        /\ addTimeSlot(timeSlots, r.slot, now).ret

\* C16: a slot f that nextFreeTimeSlot() returns can be booked at that
\* instant: f.end > now, isFree(f) is true and addTimeSlot(f) would return
\* true.
C16_NextFreeBookable ==
    /\ Bookable(nextFreeTimeSlot(timeSlots, now))
    /\ op = "nextFreeTimeSlot" => Bookable(ret)

\* nextFreeTimeSlot() returned the gap behind a running slot, and
\* addTimeSlot admits it.
C16_Witness ==
    /\ op = "nextFreeTimeSlot" /\ ret.err = Ok /\ ret.slot # NoSlot
    /\ Running # {}
    /\ \E e \in Running : ret.slot.start = e.end
    /\ addTimeSlot(timeSlots, ret.slot, now).ret

\* What C17 says of the outcome f of nextFreeTimeSlot() and the slot b
\* that nextBusyTimeSlot() returns.
Agree(f, b) ==
    f.err = Ok =>
        IF f.slot # NoSlot
        THEN b # NoSlot /\ f.slot.end = b.start
        ELSE b = NoSlot

\* C17: at one clock value in one state, if nextFreeTimeSlot() returns a
\* slot f then nextBusyTimeSlot() returns a slot b with f.end = b.start, and
\* if nextFreeTimeSlot() returns null so does nextBusyTimeSlot().
C17_QueriesAgree ==
    /\ Agree(nextFreeTimeSlot(timeSlots, now), nextBusyTimeSlot(timeSlots, now))
    /\ op = "nextFreeTimeSlot" => Agree(ret, nextBusyTimeSlot(timeSlots, now))
    /\ op = "nextBusyTimeSlot" => Agree(nextFreeTimeSlot(timeSlots, now), ret)

\* nextFreeTimeSlot() returned the gap before the earlier of two slots that
\* start after now.
C17_Witness ==
    /\ op = "nextFreeTimeSlot" /\ ret.err = Ok /\ ret.slot # NoSlot
    /\ Cardinality(Later(timeSlots, now)) >= 2
    /\ ret.slot.end = nextBusyTimeSlot(timeSlots, now).start

\* Every stored slot has ended.
AllElapsed == \A e \in Stored(timeSlots) : e.end <= now

\* The Machine is idle and nothing lies ahead.
Quiet ==
    /\ ~isBusy(timeSlots, now)
    /\ getStatus(timeSlots, now) = IDLE
    /\ nextBusyTimeSlot(timeSlots, now) = NoSlot
    /\ nextFreeTimeSlot(timeSlots, now) = [err |-> Ok, slot |-> NoSlot]

\* A step in which addTimeSlot returns true.
Admission == op' = "addTimeSlot" /\ ret' = TRUE

\* C18 (under SpecClockRuns): once every stored slot has ended the Machine
\* is idle with nothing ahead, and stays so while no addTimeSlot returns
\* true; so if the clock keeps advancing and from some point on no
\* addTimeSlot returns true, then eventually and for ever isBusy() is false,
\* getStatus() is IDLE and nextBusyTimeSlot() and nextFreeTimeSlot() return
\* null, the elapsed slots still stored.
C18_EventuallyQuiet ==
    /\ [](AllElapsed => Quiet)
    /\ [][(AllElapsed /\ ~Admission) => AllElapsed']_vars
    /\ (<>[][~Admission]_vars => <>[]Quiet)

\* getStatus() said IDLE with two elapsed slots still stored.
C18_Witness ==
    /\ op = "getStatus" /\ ret = IDLE
    /\ Len(timeSlots) >= 2
    /\ AllElapsed
    /\ Quiet

====
